---- MODULE Spec2Model ----
(***************************************************************************)
(* Model of the Vaultlight backend (backend/server.js): the upload         *)
(* handler with its transcode / encrypt / catalog-insert pipeline, the     *)
(* album listing handler and the decrypting download handler.  Every       *)
(* action is one run of handler code between two `await` points of the     *)
(* single-threaded event loop.                                             *)
(***************************************************************************)
EXTENDS Integers, Sequences, FiniteSets, TLC

(***************************************************************************)
(* Bounds of the model.                                                    *)
(***************************************************************************)
MaxUploads == 2
MaxFiles == 2
MaxGets == 1
MaxStreams == 1
MaxSegs == 3

Uploads == 1..MaxUploads
Gets == 1..MaxGets
Streams == 1..MaxStreams

\* a NULL column value
Null == [null |-> TRUE]

(***************************************************************************)
(* Byte strings are sequences over 0..ByteMod-1.                           *)
(***************************************************************************)
ByteMod == 4

(***************************************************************************)
(* Paths.  A path string is kept split at '/' : abs says whether it starts *)
(* with '/', segs are its components.                                      *)
(***************************************************************************)
DirName == <<"app">>
uploadsDir == DirName \o <<"uploads">>

RECURSIVE NormalizeFrom(_, _)
NormalizeFrom(acc, segs) ==
  IF segs = <<>> THEN acc
  ELSE LET s == Head(segs) IN
       IF s = "." \/ s = "" THEN NormalizeFrom(acc, Tail(segs))
       ELSE IF s = ".."
            THEN NormalizeFrom(IF acc = <<>> THEN acc ELSE SubSeq(acc, 1, Len(acc) - 1), Tail(segs))
            ELSE NormalizeFrom(Append(acc, s), Tail(segs))

\* path.resolve(base, p): absolute, normalized segments
PathResolve(base, p) ==
  IF p.abs THEN NormalizeFrom(<<>>, p.segs) ELSE NormalizeFrom(<<>>, base \o p.segs)

PathIsAbsolute(p) == p.abs

RECURSIVE CommonPrefixLen(_, _)
CommonPrefixLen(a, b) ==
  IF a = <<>> \/ b = <<>> \/ Head(a) # Head(b) THEN 0
  ELSE 1 + CommonPrefixLen(Tail(a), Tail(b))

\* path.relative(from, to), both absolute segment lists
PathRelative(from, to) ==
  LET f == NormalizeFrom(<<>>, from)
      t == NormalizeFrom(<<>>, to)
      c == CommonPrefixLen(f, t)
  IN [abs |-> FALSE,
      segs |-> [i \in 1..(Len(f) - c) |-> ".."] \o SubSeq(t, c + 1, Len(t))]

\* String.prototype.startsWith('..') on the joined path string
StartsWithDotDot(p) ==
  /\ ~p.abs
  /\ p.segs # <<>>
  /\ Len(p.segs[1]) >= 2
  /\ SubSeq(p.segs[1], 1, 2) = ".."

\* path.join(a, name) for a relative directory a and one file name
PathJoin(dirsegs, name) == [abs |-> FALSE, segs |-> Append(dirsegs, name)]


\* faulty variant: the containment test is a prefix test on the path as written
resolveStoragePathPrefixOnly(storedPath) ==
  LET absolute == IF PathIsAbsolute(storedPath)
                  THEN storedPath.segs
                  ELSE DirName \o storedPath.segs
  IN IF Len(absolute) >= Len(uploadsDir) /\ SubSeq(absolute, 1, Len(uploadsDir)) = uploadsDir
     THEN [ok |-> TRUE, path |-> absolute]
     ELSE [ok |-> FALSE, path |-> <<>>]

(***************************************************************************)
(* resolveStoragePath: ok = FALSE models `throw new Error('Invalid file    *)
(* path')`; otherwise path is the returned absolute path (not normalized   *)
(* when the stored path was already absolute).                             *)
(***************************************************************************)
resolveStoragePath(storedPath) ==
  LET absolute == IF PathIsAbsolute(storedPath)
                  THEN storedPath.segs
                  ELSE PathResolve(DirName, storedPath)
      relative == PathRelative(uploadsDir, absolute)
  IN IF StartsWithDotDot(relative) \/ PathIsAbsolute(relative)
     THEN [ok |-> FALSE, path |-> <<>>]
     ELSE [ok |-> TRUE, path |-> absolute]

\* the file the operating system opens for an absolute path
OpenedLocation(abspath) == NormalizeFrom(<<>>, abspath)

InsideRoot(loc) ==
  /\ Len(loc) >= Len(uploadsDir)
  /\ SubSeq(loc, 1, Len(uploadsDir)) = uploadsDir

(***************************************************************************)
(* Names.  path.extname works on the part after the last '/', returns the  *)
(* text from the last '.' on, and '' when there is no '.' or it is the     *)
(* first character or the name is '..'.                                    *)
(***************************************************************************)
RECURSIVE LastIndexOf(_, _, _)
LastIndexOf(s, c, i) ==
  IF i = 0 THEN 0
  ELSE IF SubSeq(s, i, i) = c THEN i ELSE LastIndexOf(s, c, i - 1)

ExtName(name) ==
  LET slash == LastIndexOf(name, "/", Len(name))
      base == SubSeq(name, slash + 1, Len(name))
      dot == LastIndexOf(base, ".", Len(base))
  IN IF dot <= 1 \/ base = ".." THEN "" ELSE SubSeq(base, dot, Len(base))

LowerChar(c) ==
  CASE c = "M" -> "m" [] c = "O" -> "o" [] c = "V" -> "v"
    [] c = "Q" -> "q" [] c = "T" -> "t" [] c = "J" -> "j"
    [] c = "P" -> "p" [] c = "G" -> "g" [] OTHER -> c

RECURSIVE ToLowerCase(_)
ToLowerCase(s) ==
  IF Len(s) = 0 THEN ""
  ELSE LowerChar(SubSeq(s, 1, 1)) \o ToLowerCase(SubSeq(s, 2, Len(s)))

StartsWith(s, prefix) ==
  /\ Len(s) >= Len(prefix)
  /\ SubSeq(s, 1, Len(prefix)) = prefix

quickTimeTypes == {"video/quicktime"}
quickTimeExtensions == {".mov", ".qt"}

\* faulty variant: both the type and the extension must be QuickTime
shouldConvertToMp4Both(file) ==
  LET ext == ToLowerCase(ExtName(file.originalname))
  IN file.mimetype \in quickTimeTypes /\ ext \in quickTimeExtensions

shouldConvertToMp4(file) ==
  LET ext == ToLowerCase(ExtName(file.originalname))
  IN file.mimetype \in quickTimeTypes \/ ext \in quickTimeExtensions

\* multer fileFilter
fileFilter(file) ==
  StartsWith(file.mimetype, "image/") \/ StartsWith(file.mimetype, "video/")

(***************************************************************************)
(* Album tokens.  A token string is kept as its dash-separated groups:     *)
(* grp the group lengths, hex whether every character is a hex digit, ver  *)
(* the first character of group 3, var the first character of group 4,     *)
(* n which token it is.                                                    *)
(***************************************************************************)
\* faulty variant: the version digit is not checked
validateUuidAnyVersion(value) ==
  /\ value.grp = <<8, 4, 4, 4, 12>>
  /\ value.hex
  /\ value.var \in {"8", "9", "a", "b", "A", "B"}

validateUuid(value) ==
  /\ value.grp = <<8, 4, 4, 4, 12>>
  /\ value.hex
  /\ value.ver \in {"1", "2", "3", "4", "5"}
  /\ value.var \in {"8", "9", "a", "b", "A", "B"}

\* uuidv4() for the permalink of upload u
uuidv4(u) == [grp |-> <<8, 4, 4, 4, 12>>, hex |-> TRUE, ver |-> "4", var |-> "a", n |-> u]

\* the uuid part of generated file names
ObjectUuid(u, k) == "o" \o ToString(u) \o "-" \o ToString(k)
TempName(u, k, ext) == "t" \o ToString(u) \o "-" \o ToString(k) \o ext
ConvertedName(u, k) == "c" \o ToString(u) \o "-" \o ToString(k) \o ".mp4"

(***************************************************************************)
(* Cryptography.  AES-256-GCM is a counter-mode stream cipher with an      *)
(* authentication tag over (key, iv, ciphertext); the tag is modelled as   *)
(* an ideal MAC (distinct inputs give distinct tags).  AES-256-CBC is      *)
(* modelled with one padding byte that final() validates.                  *)
(***************************************************************************)
encryptionKey == 3

IvLenGcm == 12

GcmKeyStream(key, iv, i) == (key + iv.v + i) % ByteMod

GcmEncrypt(key, iv, pt) ==
  [i \in 1..Len(pt) |-> (pt[i] + GcmKeyStream(key, iv, i)) % ByteMod]

\* faulty variant: the decipher is keyed with a counter block that is off by one
GcmDecryptShifted(key, iv, ct) ==
  [i \in 1..Len(ct) |-> (ct[i] + ByteMod - GcmKeyStream(key, iv, i + 1)) % ByteMod]

GcmDecrypt(key, iv, ct) ==
  [i \in 1..Len(ct) |-> (ct[i] + ByteMod - GcmKeyStream(key, iv, i)) % ByteMod]

GcmTag(key, iv, ct) == [key |-> key, iv |-> iv, ct |-> ct]

\* decipher.final() of aes-256-gcm: TRUE when the registered tag verifies
GcmVerify(key, iv, ct, tag) == tag = GcmTag(key, iv, ct)

CbcKeyStream(key, iv, i) == (2 * key + iv.v + i + 1) % ByteMod

CbcEncrypt(key, iv, pt) ==
  LET padded == Append(pt, 1)
  IN [i \in 1..Len(padded) |-> (padded[i] + CbcKeyStream(key, iv, i)) % ByteMod]

CbcDecryptRaw(key, iv, ct) ==
  [i \in 1..Len(ct) |-> (ct[i] + ByteMod - CbcKeyStream(key, iv, i)) % ByteMod]

\* decipher.final() of aes-256-cbc: TRUE when the padding is well formed
CbcPaddingOk(key, iv, ct) ==
  /\ Len(ct) >= 1
  /\ CbcDecryptRaw(key, iv, ct)[Len(ct)] = 1

\* Buffer.toString('hex') and Buffer.from(_, 'hex')
HexEncode(buf) == [null |-> FALSE, hex |-> buf]
HexDecode(str) == str.hex

\* the JavaScript truth value of a nullable string column
Truthy(v) == ~v.null


(***************************************************************************)
(* Requests a client can send.                                             *)
(***************************************************************************)
FileKinds ==
  { [originalname |-> "a.jpg", mimetype |-> "image/jpeg", content |-> <<1, 2>>],
    [originalname |-> "b.MOV", mimetype |-> "video/quicktime", content |-> <<3>>],
    [originalname |-> "c.txt", mimetype |-> "text/plain", content |-> <<0>>] }

RECURSIVE SeqsUpTo(_, _)
SeqsUpTo(S, n) ==
  IF n = 0 THEN {<<>>}
  ELSE LET shorter == SeqsUpTo(S, n - 1)
       IN shorter \cup {Append(q, x) : q \in {r \in shorter : Len(r) = n - 1}, x \in S}

\* the first upload carries up to MaxFiles files, every other one up to one
UploadInputs(u) == SeqsUpTo(FileKinds, IF u = 1 THEN MaxFiles ELSE 1)

\* the output of the external transcoder for an input
Mp4Of(content) == <<0>> \o content

(***************************************************************************)
(* State.                                                                  *)
(*   albums, files : the rows of the two catalog tables, in id order (the  *)
(*                   id of a row is its index)                             *)
(*   disk          : the files below '/', by normalized absolute path      *)
(*   tmp           : the files of os.tmpdir(), by name                     *)
(*   ffmpegStatic  : whether the ffmpeg binary was found at startup        *)
(*   unlinks       : the safeUnlink calls made outside of a request, each   *)
(*                   with what it was given and what it did                 *)
(*   boot          : the startup of the process: its phase, the configured  *)
(*                   ENCRYPTION_KEY, the key loaded from it, the number of  *)
(*                   times loadEncryptionKey has run                        *)
(*   finalised     : for each stored name whose cipher reached             *)
(*                   getAuthTag(), the ciphertext and tag it produced      *)
(*   up, ga, st    : the in-flight upload, album and download requests     *)
(***************************************************************************)
VARIABLES albums, files, disk, tmp, ffmpegStatic, boot, unlinks, finalised, up, ga, st

vars == <<albums, files, disk, tmp, ffmpegStatic, boot, unlinks, finalised, up, ga, st>>

NoRes == [status |-> 0, body |-> "", files |-> <<>>, permalink |-> Null]
NoCur == [workingPath |-> "", mimeType |-> "", extension |-> "", filename |-> "",
          iv |-> Null, converted |-> FALSE, failed |-> FALSE, record |-> Null]

UpIdle == [pc |-> "idle", files |-> <<>>, permalink |-> Null, albumId |-> 0, k |-> 0,
           cur |-> NoCur, fileRecords |-> <<>>, j |-> 0, res |-> NoRes]

Remove(f, x) == [y \in DOMAIN f \ {x} |-> f[y]]
Put(f, x, v) == (x :> v) @@ f

\* the error middleware
ErrorResponse(err) ==
  IF err = "MulterError"
  THEN [NoRes EXCEPT !.status = 400, !.body = "MulterError"]
  ELSE [NoRes EXCEPT !.status = 500, !.body = "Internal server error"]

\* faulty variant: no try/catch around the unlink
safeUnlinkUnguarded(t, targetPath, code) ==
  IF targetPath = ""
  THEN [tmp |-> t, called |-> FALSE, warned |-> FALSE, threw |-> FALSE]
  ELSE IF code = ""
  THEN [tmp |-> Remove(t, targetPath), called |-> TRUE, warned |-> FALSE, threw |-> FALSE]
  ELSE [tmp |-> t, called |-> TRUE, warned |-> FALSE, threw |-> TRUE]

\* safeUnlink for the files t, given the error code fs.promises.unlink ends
\* with ("" when it succeeds): the files afterwards, whether unlink was
\* called, whether console.warn was called, whether the promise rejects
safeUnlinkOutcome(t, targetPath, code) ==
  IF targetPath = ""
  THEN [tmp |-> t, called |-> FALSE, warned |-> FALSE, threw |-> FALSE]
  ELSE IF code = ""
  THEN [tmp |-> Remove(t, targetPath), called |-> TRUE, warned |-> FALSE, threw |-> FALSE]
  ELSE [tmp |-> t, called |-> TRUE, warned |-> code # "ENOENT", threw |-> FALSE]

\* safeUnlink on a file system that removes every file that exists
safeUnlink(t, targetPath) ==
  safeUnlinkOutcome(t, targetPath, IF targetPath \in DOMAIN t THEN "" ELSE "ENOENT").tmp

(***************************************************************************)
(* Startup.  The module body runs once, top to bottom: loadEncryptionKey   *)
(* for the constant encryptionKey, later app.listen.  An exception thrown  *)
(* by the module body ends the process.  ENCRYPTION_KEY is Null when the   *)
(* variable is not set, or [null |-> FALSE, str |-> the text].             *)
(***************************************************************************)
HexDigits == "0123456789abcdefABCDEF"
Base64Alphabet == "ABCDEFGHIJKLMNOPQRSTUVWXYZabcdefghijklmnopqrstuvwxyz0123456789+/-_"

CharIn(c, alphabet) == \E j \in 1..Len(alphabet) : SubSeq(alphabet, j, j) = c

AllCharsIn(s, alphabet) == \A i \in 1..Len(s) : CharIn(SubSeq(s, i, i), alphabet)

\* /^[0-9a-fA-F]{64}$/.test(rawKey)
HexKeyPattern(str) == Len(str) = 64 /\ AllCharsIn(str, HexDigits)

\* the number of base64 digits Buffer.from(str, 'base64') consumes: it never
\* throws, reads the digits of either alphabet, passes over every other
\* character and ends at the first '='
Base64Digits(str) ==
  Cardinality({i \in 1..Len(str) :
                 /\ CharIn(SubSeq(str, i, i), Base64Alphabet)
                 /\ \A h \in 1..i : SubSeq(str, h, h) # "="})

\* Buffer.from(str, 'base64').length
Base64DecodedLength(str) == (6 * Base64Digits(str)) \div 8

loadEncryptionKey(rawKey) ==
  IF rawKey.null \/ rawKey.str = ""
  THEN [ok |-> FALSE, key |-> Null]
  ELSE IF HexKeyPattern(rawKey.str)
  THEN [ok |-> TRUE, key |-> [null |-> FALSE, encoding |-> "hex", text |-> rawKey.str]]
  ELSE IF Base64DecodedLength(rawKey.str) = 32
  THEN [ok |-> TRUE, key |-> [null |-> FALSE, encoding |-> "base64", text |-> rawKey.str]]
  ELSE [ok |-> FALSE, key |-> Null]

Listening == boot.phase = "listening"

\* `const encryptionKey = loadEncryptionKey(process.env.ENCRYPTION_KEY)`
LoadKey ==
  /\ boot.phase = "start"
  /\ LET loaded == loadEncryptionKey(boot.rawKey)
     IN boot' = IF loaded.ok
                THEN [boot EXCEPT !.phase = "loaded", !.key = loaded.key, !.loads = @ + 1]
                ELSE [boot EXCEPT !.phase = "aborted", !.loads = @ + 1]
  /\ UNCHANGED <<albums, files, disk, tmp, ffmpegStatic, unlinks, finalised, up, ga, st>>

\* app.listen(PORT)
Listen ==
  /\ boot.phase = "loaded"
  /\ boot' = [boot EXCEPT !.phase = "listening"]
  /\ UNCHANGED <<albums, files, disk, tmp, ffmpegStatic, unlinks, finalised, up, ga, st>>

(***************************************************************************)
(* POST /upload                                                            *)
(***************************************************************************)
\* multer rejects the request: a file fails the fileFilter
UploadUnsupported(u, fs) ==
  /\ Listening
  /\ up[u].pc = "idle"
  /\ \E i \in 1..Len(fs) : ~fileFilter(fs[i])
  /\ up' = [up EXCEPT ![u] = [@ EXCEPT !.pc = "done",
                                          !.res = ErrorResponse("MulterError")]]
  /\ UNCHANGED <<albums, files, disk, tmp, ffmpegStatic, boot, unlinks, finalised, ga, st>>

\* faulty variant: the album row is inserted before the file list is looked at
UploadNoFilesAfterInsert(u) ==
  /\ Listening
  /\ up[u].pc = "idle"
  /\ albums' = Append(albums, uuidv4(u))
  /\ up' = [up EXCEPT ![u] = [@ EXCEPT !.pc = "done",
                 !.res = [NoRes EXCEPT !.status = 400, !.body = "No files uploaded"]]]
  /\ UNCHANGED <<files, disk, tmp, ffmpegStatic, boot, unlinks, finalised, ga, st>>

\* no file at all
UploadNoFiles(u) ==
  /\ Listening
  /\ up[u].pc = "idle"
  /\ up' = [up EXCEPT ![u] = [@ EXCEPT !.pc = "done",
                 !.res = [NoRes EXCEPT !.status = 400, !.body = "No files uploaded"]]]
  /\ UNCHANGED <<albums, files, disk, tmp, ffmpegStatic, boot, unlinks, finalised, ga, st>>

\* multer has stored every file in tmpdir; the handler issues the album insert
UploadBegin(u, fs) ==
  /\ Listening
  /\ up[u].pc = "idle"
  /\ Len(fs) > 0
  /\ \A i \in 1..Len(fs) : fileFilter(fs[i])
  /\ tmp' = [n \in DOMAIN tmp \cup {TempName(u, i, ExtName(fs[i].originalname)) : i \in 1..Len(fs)} |->
               IF n \in DOMAIN tmp THEN tmp[n]
               ELSE LET i == CHOOSE i \in 1..Len(fs) : n = TempName(u, i, ExtName(fs[i].originalname))
                    IN fs[i].content]
  /\ up' = [up EXCEPT ![u] = [@ EXCEPT !.pc = "albumInsert", !.files = fs,
                                          !.permalink = uuidv4(u)]]
  /\ UNCHANGED <<albums, files, disk, ffmpegStatic, boot, unlinks, finalised, ga, st>>

FilePath(u, i) == TempName(u, i, ExtName(up[u].files[i].originalname))

\* the catch block followed by the await of the finally block
Fail(u, rec) == [rec EXCEPT !.pc = "finally", !.res = ErrorResponse("Error")]

\* crypto.randomBytes(12) as drawn for file k of upload u
RandomIv(u, k) == [len |-> IvLenGcm, v |-> (u + 2 * k) % ByteMod]

\* encryptAndStoreFromDisk up to its first await: the IV and the object name
EncryptSetup(u, rec) ==
  LET extension == rec.cur.extension
      targetExtension == IF extension # ""
                         THEN (IF StartsWith(extension, ".") THEN extension ELSE "." \o extension)
                         ELSE ""
  IN [rec EXCEPT !.pc = "encrypt",
                 !.cur.iv = RandomIv(u, rec.k),
                 !.cur.filename = ObjectUuid(u, rec.k) \o targetExtension]

\* faulty variant: without FFmpeg the original file is stored as it is
LoopHeadFallback(u, rec) ==
  IF rec.k > Len(rec.files)
  THEN [rec EXCEPT !.pc = "insert", !.j = 1, !.cur = NoCur]
  ELSE LET file == rec.files[rec.k]
           start == [rec EXCEPT !.cur = [NoCur EXCEPT
                        !.workingPath = TempName(u, rec.k, ExtName(file.originalname)),
                        !.mimeType = file.mimetype,
                        !.extension = ExtName(file.originalname)]]
       IN IF shouldConvertToMp4(file) /\ ffmpegStatic
          THEN [start EXCEPT !.pc = "convert"]
          ELSE EncryptSetup(u, start)

\* the head of `for (const file of req.files)` and persistUploadedFile up to
\* its first await, for the upload record rec whose k is the next file
LoopHead(u, rec) ==
  IF rec.k > Len(rec.files)
  THEN [rec EXCEPT !.pc = "insert", !.j = 1, !.cur = NoCur]
  ELSE LET file == rec.files[rec.k]
           start == [rec EXCEPT !.cur = [NoCur EXCEPT
                        !.workingPath = TempName(u, rec.k, ExtName(file.originalname)),
                        !.mimeType = file.mimetype,
                        !.extension = ExtName(file.originalname)]]
       IN IF shouldConvertToMp4(file)
          THEN (IF ffmpegStatic
                THEN [start EXCEPT !.pc = "convert"]
                ELSE [start EXCEPT !.pc = "pfinally", !.cur.failed = TRUE])
          ELSE EncryptSetup(u, start)

\* faulty variant: the insert replaces the newest album row
AlbumInsertOkReplace(u) ==
  /\ up[u].pc = "albumInsert"
  /\ albums' = IF albums = <<>> THEN <<up[u].permalink>>
               ELSE [albums EXCEPT ![Len(albums)] = up[u].permalink]
  /\ up' = [up EXCEPT ![u] = LoopHead(u, [@ EXCEPT !.albumId = Len(albums'),
                                                   !.k = 1, !.fileRecords = <<>>])]
  /\ UNCHANGED <<files, disk, tmp, ffmpegStatic, boot, unlinks, finalised, ga, st>>

AlbumInsertOk(u) ==
  /\ up[u].pc = "albumInsert"
  /\ albums' = Append(albums, up[u].permalink)
  /\ up' = [up EXCEPT ![u] = LoopHead(u, [@ EXCEPT !.albumId = Len(albums) + 1,
                                                   !.k = 1, !.fileRecords = <<>>])]
  /\ UNCHANGED <<files, disk, tmp, ffmpegStatic, boot, unlinks, finalised, ga, st>>

AlbumInsertErr(u) ==
  /\ up[u].pc = "albumInsert"
  /\ up' = [up EXCEPT ![u] = Fail(u, @)]
  /\ UNCHANGED <<albums, files, disk, tmp, ffmpegStatic, boot, unlinks, finalised, ga, st>>


\* convertToMp4: ffmpeg ends; the original is then unlinked (next await)
ConvertEnd(u) ==
  /\ up[u].pc = "convert"
  /\ up[u].cur.workingPath \in DOMAIN tmp
  /\ tmp' = Put(tmp, ConvertedName(u, up[u].k), Mp4Of(tmp[up[u].cur.workingPath]))
  /\ up' = [up EXCEPT ![u] = [@ EXCEPT !.pc = "unlinkOrig", !.cur.converted = TRUE]]
  /\ UNCHANGED <<albums, files, disk, ffmpegStatic, boot, unlinks, finalised, ga, st>>

\* convertToMp4: ffmpeg reports an error; it may already have written a part
\* of its output file
ConvertError(u, leftover) ==
  /\ up[u].pc = "convert"
  /\ tmp' = IF leftover THEN Put(tmp, ConvertedName(u, up[u].k), <<>>) ELSE tmp
  /\ up' = [up EXCEPT ![u] = [@ EXCEPT !.pc = "pfinally", !.cur.failed = TRUE]]
  /\ UNCHANGED <<albums, files, disk, ffmpegStatic, boot, unlinks, finalised, ga, st>>

\* `await safeUnlink(workingPath)` after the conversion, then the switch to
\* the converted file and the start of its encryption
UnlinkOriginal(u) ==
  /\ up[u].pc = "unlinkOrig"
  /\ tmp' = safeUnlink(tmp, up[u].cur.workingPath)
  /\ up' = [up EXCEPT ![u] = EncryptSetup(u, [@ EXCEPT
                 !.cur.workingPath = ConvertedName(u, up[u].k),
                 !.cur.mimeType = "video/mp4",
                 !.cur.extension = ".mp4"])]
  /\ UNCHANGED <<albums, files, disk, ffmpegStatic, boot, unlinks, finalised, ga, st>>

\* path.join(__dirname, 'uploads', filename)
ObjectPath(filename) == OpenedLocation(DirName \o PathJoin(<<"uploads">>, filename).segs)

\* faulty variant: the stored path is taken relative to the uploads directory
PersistedRecordRootRelative(rec, stored, authTag) ==
  LET cur == rec.cur
      relativePath == PathJoin(<<"uploads">>, cur.filename)
      absolutePath == DirName \o relativePath.segs
  IN [album_id |-> rec.albumId,
      filename |-> cur.filename,
      original_name |-> rec.files[rec.k].originalname,
      path |-> PathRelative(uploadsDir, absolutePath),
      type |-> cur.mimeType,
      size |-> Len(stored),
      iv |-> HexEncode(cur.iv),
      tag |-> HexEncode(authTag)]

\* faulty variant: the tag is not kept in the record
PersistedRecordNoTag(rec, stored, authTag) ==
  LET cur == rec.cur
      relativePath == PathJoin(<<"uploads">>, cur.filename)
      absolutePath == DirName \o relativePath.segs
  IN [album_id |-> rec.albumId,
      filename |-> cur.filename,
      original_name |-> rec.files[rec.k].originalname,
      path |-> PathRelative(DirName, absolutePath),
      type |-> cur.mimeType,
      size |-> Len(stored),
      iv |-> HexEncode(cur.iv),
      tag |-> Null]

\* the record persistUploadedFile returns for the file in progress of the
\* upload record rec, given the stored bytes and the tag
PersistedRecord(rec, stored, authTag) ==
  LET cur == rec.cur
      relativePath == PathJoin(<<"uploads">>, cur.filename)
      absolutePath == DirName \o relativePath.segs
  IN [album_id |-> rec.albumId,
      filename |-> cur.filename,
      original_name |-> rec.files[rec.k].originalname,
      path |-> PathRelative(DirName, absolutePath),
      type |-> cur.mimeType,
      size |-> Len(stored),
      iv |-> HexEncode(cur.iv),
      tag |-> HexEncode(authTag)]

\* encryptAndStoreFromDisk: the pipeline ends, the tag is read, the size is
\* taken from stat
EncryptOk(u) ==
  /\ up[u].pc = "encrypt"
  /\ up[u].cur.workingPath \in DOMAIN tmp
  /\ LET cur == up[u].cur
         ct == GcmEncrypt(encryptionKey, cur.iv, tmp[cur.workingPath])
         authTag == GcmTag(encryptionKey, cur.iv, ct)
     IN /\ disk' = Put(disk, ObjectPath(cur.filename),
                       [data |-> ct, complete |-> TRUE, tampered |-> FALSE])
        /\ finalised' = Put(finalised, cur.filename, [ct |-> ct, tag |-> HexEncode(authTag)])
        /\ up' = [up EXCEPT ![u] = [@ EXCEPT !.pc = "pfinally",
                                            !.cur.record = PersistedRecord(up[u], ct, authTag)]]
  /\ UNCHANGED <<albums, files, tmp, ffmpegStatic, boot, unlinks, ga, st>>

\* faulty variant: the pipeline error is swallowed and a record is returned anyway
EncryptErrorSwallowed(u, created) ==
  /\ up[u].pc = "encrypt"
  /\ up[u].cur.workingPath \in DOMAIN tmp
  /\ LET cur == up[u].cur
         ct == GcmEncrypt(encryptionKey, cur.iv, tmp[cur.workingPath])
         part == SubSeq(ct, 1, Len(ct) - 1)
     IN /\ disk' = IF created
                   THEN Put(disk, ObjectPath(cur.filename),
                            [data |-> part, complete |-> FALSE, tampered |-> FALSE])
                   ELSE disk
        /\ up' = [up EXCEPT ![u] = [@ EXCEPT !.pc = "pfinally",
                     !.cur.record = PersistedRecord(up[u], part, GcmTag(encryptionKey, cur.iv, part))]]
  /\ UNCHANGED <<albums, files, tmp, ffmpegStatic, boot, unlinks, finalised, ga, st>>

\* encryptAndStoreFromDisk: a read or write error ends the pipeline; the
\* destination was never created, or holds all but the last ciphertext byte
EncryptError(u, created) ==
  /\ up[u].pc = "encrypt"
  /\ up[u].cur.workingPath \in DOMAIN tmp
  /\ LET cur == up[u].cur
         ct == GcmEncrypt(encryptionKey, cur.iv, tmp[cur.workingPath])
     IN disk' = IF created
                THEN Put(disk, ObjectPath(cur.filename),
                         [data |-> SubSeq(ct, 1, Len(ct) - 1), complete |-> FALSE,
                          tampered |-> FALSE])
                ELSE disk
  /\ up' = [up EXCEPT ![u] = [@ EXCEPT !.pc = "pfinally", !.cur.failed = TRUE]]
  /\ UNCHANGED <<albums, files, tmp, ffmpegStatic, boot, unlinks, finalised, ga, st>>

\* faulty variant: the row of a file is inserted as soon as the file is stored
PersistFinallyInsertEach(u) ==
  /\ up[u].pc = "pfinally"
  /\ tmp' = safeUnlink(tmp, up[u].cur.workingPath)
  /\ files' = IF up[u].cur.failed THEN files ELSE Append(files, up[u].cur.record)
  /\ up' = [up EXCEPT ![u] =
              IF up[u].cur.failed
              THEN Fail(u, @)
              ELSE LoopHead(u, [@ EXCEPT !.fileRecords = Append(@, up[u].cur.record),
                                         !.k = @ + 1])]
  /\ UNCHANGED <<albums, disk, ffmpegStatic, boot, unlinks, finalised, ga, st>>

\* faulty variant: a file that failed is skipped and the next one is started
PersistFinallySkipFailed(u) ==
  /\ up[u].pc = "pfinally"
  /\ tmp' = safeUnlink(tmp, up[u].cur.workingPath)
  /\ up' = [up EXCEPT ![u] =
              IF up[u].cur.failed
              THEN LoopHead(u, [@ EXCEPT !.k = @ + 1])
              ELSE LoopHead(u, [@ EXCEPT !.fileRecords = Append(@, up[u].cur.record),
                                         !.k = @ + 1])]
  /\ UNCHANGED <<albums, files, disk, ffmpegStatic, boot, unlinks, finalised, ga, st>>

\* faulty variant: the next file is started without the cleanup of this one
PersistFinallyNoCleanup(u) ==
  /\ up[u].pc = "pfinally"
  /\ up' = [up EXCEPT ![u] =
              IF up[u].cur.failed
              THEN Fail(u, @)
              ELSE LoopHead(u, [@ EXCEPT !.fileRecords = Append(@, up[u].cur.record),
                                         !.k = @ + 1])]
  /\ UNCHANGED <<albums, files, disk, tmp, ffmpegStatic, boot, unlinks, finalised, ga, st>>

\* the finally block of persistUploadedFile, then either the throw into the
\* handler's catch or fileRecords.push and the next file
PersistFinally(u) ==
  /\ up[u].pc = "pfinally"
  /\ tmp' = safeUnlink(tmp, up[u].cur.workingPath)
  /\ up' = [up EXCEPT ![u] =
              IF up[u].cur.failed
              THEN Fail(u, @)
              ELSE LoopHead(u, [@ EXCEPT !.fileRecords = Append(@, up[u].cur.record),
                                         !.k = @ + 1])]
  /\ UNCHANGED <<albums, files, disk, ffmpegStatic, boot, unlinks, finalised, ga, st>>

\* faulty variant: the response is sent after the first insert
AllInsertedFirstOnly(rec) == rec.j >= 1

\* the exit test of `for (const record of fileRecords)` after insert j
AllInserted(rec) == rec.j = Len(rec.fileRecords)

\* one `await runAsync('INSERT INTO files ...')`; after the last one the
\* handler sends the permalink
InsertFileOk(u) ==
  /\ up[u].pc = "insert"
  /\ files' = Append(files, up[u].fileRecords[up[u].j])
  /\ up' = [up EXCEPT ![u] =
              IF AllInserted(up[u])
              THEN [@ EXCEPT !.pc = "finally",
                             !.res = [NoRes EXCEPT !.status = 200, !.permalink = up[u].permalink]]
              ELSE [@ EXCEPT !.j = @ + 1]]
  /\ UNCHANGED <<albums, disk, tmp, ffmpegStatic, boot, unlinks, finalised, ga, st>>

InsertFileErr(u) ==
  /\ up[u].pc = "insert"
  /\ up' = [up EXCEPT ![u] = Fail(u, @)]
  /\ UNCHANGED <<albums, files, disk, tmp, ffmpegStatic, boot, unlinks, finalised, ga, st>>

RECURSIVE UnlinkAll(_, _)
UnlinkAll(t, paths) ==
  IF paths = <<>> THEN t ELSE UnlinkAll(safeUnlink(t, Head(paths)), Tail(paths))

\* the handler's finally block: every req.files[i].path is unlinked
UploadFinally(u) ==
  /\ up[u].pc = "finally"
  /\ tmp' = UnlinkAll(tmp, [i \in 1..Len(up[u].files) |-> FilePath(u, i)])
  /\ up' = [up EXCEPT ![u] = [@ EXCEPT !.pc = "done"]]
  /\ UNCHANGED <<albums, files, disk, ffmpegStatic, boot, unlinks, finalised, ga, st>>


(***************************************************************************)
(* GET /album/:permalink                                                   *)
(***************************************************************************)
\* queries counts the catalog queries the request has issued
GaIdle == [pc |-> "idle", token |-> Null, albumId |-> 0, queries |-> 0, after |-> {},
           res |-> NoRes]

OldToken == [grp |-> <<8, 4, 4, 4, 12>>, hex |-> TRUE, ver |-> "4", var |-> "8", n |-> 0]
UnknownToken == [grp |-> <<8, 4, 4, 4, 12>>, hex |-> TRUE, ver |-> "1", var |-> "B", n |-> 99]
MalformedTokens ==
  { [grp |-> <<8, 4, 4, 4, 11>>, hex |-> TRUE, ver |-> "4", var |-> "a", n |-> 1],
    [grp |-> <<8, 4, 4, 4, 12>>, hex |-> TRUE, ver |-> "6", var |-> "c", n |-> 1],
    [grp |-> <<8, 4, 4, 4, 12>>, hex |-> TRUE, ver |-> "0", var |-> "a", n |-> 1],
    [grp |-> <<8, 4, 4, 4, 12>>, hex |-> FALSE, ver |-> "4", var |-> "a", n |-> 1] }

Tokens == {uuidv4(u) : u \in Uploads} \cup {OldToken, UnknownToken} \cup MalformedTokens

\* SELECT id FROM albums WHERE permalink = ? (0 when there is no row)
AlbumByPermalink(permalink) ==
  IF \E i \in 1..Len(albums) : albums[i] = permalink
  THEN CHOOSE i \in 1..Len(albums) :
         albums[i] = permalink /\ \A h \in 1..(i - 1) : albums[h] # permalink
  ELSE 0

\* faulty variant: the rows are listed by descending id
FilesOfAlbumDesc(albumId) ==
  LET Listed(r) == [filename |-> r.filename, original_name |-> r.original_name,
                    type |-> r.type, size |-> r.size]
      asc == SelectSeq([i \in 1..Len(files) |-> [album_id |-> files[i].album_id, row |-> Listed(files[i])]],
                       LAMBDA x : x.album_id = albumId)
  IN [i \in 1..Len(asc) |-> asc[Len(asc) + 1 - i]]

\* SELECT filename, original_name, type, size FROM files WHERE album_id = ? ORDER BY id ASC
FilesOfAlbum(albumId) ==
  LET Listed(r) == [filename |-> r.filename, original_name |-> r.original_name,
                    type |-> r.type, size |-> r.size]
  IN SelectSeq([i \in 1..Len(files) |-> [album_id |-> files[i].album_id, row |-> Listed(files[i])]],
               LAMBDA x : x.album_id = albumId)

GetAlbumRequest(g, token) ==
  /\ Listening
  /\ ga[g].pc = "idle"
  /\ ga' = [ga EXCEPT ![g] =
              IF ~validateUuid(token)
              THEN [@ EXCEPT !.pc = "done", !.token = token,
                             !.res = [NoRes EXCEPT !.status = 400, !.body = "Invalid album identifier"]]
              ELSE [@ EXCEPT !.pc = "lookup", !.token = token, !.queries = 1,
                             !.after = {u \in Uploads : up[u].res.status = 200}]]
  /\ UNCHANGED <<albums, files, disk, tmp, ffmpegStatic, boot, unlinks, finalised, up, st>>

GetAlbumLookup(g) ==
  /\ ga[g].pc = "lookup"
  /\ LET id == AlbumByPermalink(ga[g].token)
     IN ga' = [ga EXCEPT ![g] =
                 IF id = 0
                 THEN [@ EXCEPT !.pc = "done",
                                !.res = [NoRes EXCEPT !.status = 404, !.body = "Album not found"]]
                 ELSE [@ EXCEPT !.pc = "list", !.albumId = id, !.queries = 2]]
  /\ UNCHANGED <<albums, files, disk, tmp, ffmpegStatic, boot, unlinks, finalised, up, st>>

GetAlbumList(g) ==
  /\ ga[g].pc = "list"
  /\ LET rows == FilesOfAlbum(ga[g].albumId)
     IN ga' = [ga EXCEPT ![g] = [@ EXCEPT !.pc = "done",
                 !.res = [NoRes EXCEPT !.status = 200,
                                       !.files = [i \in 1..Len(rows) |-> rows[i].row]]]]
  /\ UNCHANGED <<albums, files, disk, tmp, ffmpegStatic, boot, unlinks, finalised, up, st>>


(***************************************************************************)
(* GET /uploads/:filename                                                  *)
(***************************************************************************)
NoRecord == [album_id |-> 0, filename |-> "", original_name |-> "",
             path |-> [abs |-> FALSE, segs |-> <<>>], type |-> "", size |-> 0,
             iv |-> Null, tag |-> Null]

\* A download keeps, besides what the handler holds: fd, whether the read
\* stream holds an open file descriptor; opens, how often the object was
\* opened; closed, whether the client has closed the connection.
\* res of a download: status and content type as sent or to be sent, the
\* plaintext bytes flushed so far, whether the response ended normally
NoStreamRes == [status |-> 0, body |-> "", type |-> "", sent |-> <<>>, complete |-> FALSE]

StIdle == [pc |-> "idle", name |-> "", record |-> NoRecord, absolutePath |-> <<>>,
           mode |-> "", opened |-> <<>>, data |-> <<>>, headers |-> FALSE,
           fd |-> FALSE, opens |-> 0, closed |-> FALSE, res |-> NoStreamRes]

\* faulty variant: the WHERE clause matches every row when no name matches
FileByNameAnyRow(filename) ==
  IF \E i \in 1..Len(files) : files[i].filename = filename
  THEN CHOOSE i \in 1..Len(files) :
         files[i].filename = filename /\ \A h \in 1..(i - 1) : files[h].filename # filename
  ELSE IF Len(files) > 0 THEN 1 ELSE 0

\* SELECT ... FROM files WHERE filename = ? (the first matching row, 0 if none)
FileByName(filename) ==
  IF \E i \in 1..Len(files) : files[i].filename = filename
  THEN CHOOSE i \in 1..Len(files) :
         files[i].filename = filename /\ \A h \in 1..(i - 1) : files[h].filename # filename
  ELSE 0

\* next(error) reaching the error middleware of a download
StreamErrorResponse(res) ==
  IF res.sent = <<>>
  THEN [res EXCEPT !.status = 500, !.body = "Internal server error", !.complete = FALSE]
  ELSE [res EXCEPT !.complete = FALSE]

StreamRequest(s, name) ==
  /\ Listening
  /\ st[s].pc = "idle"
  /\ st' = [st EXCEPT ![s] = [@ EXCEPT !.pc = "lookup", !.name = name]]
  /\ UNCHANGED <<albums, files, disk, tmp, ffmpegStatic, boot, unlinks, finalised, up, ga>>

\* the algorithm handed to crypto.createDecipheriv for a row
DecipherMode(fileRecord) ==
  IF Truthy(fileRecord.tag) THEN "aes-256-gcm" ELSE "aes-256-cbc"

\* the lookup returns; path resolution, headers, creation of the streams
StreamLookup(s) ==
  /\ st[s].pc = "lookup"
  /\ LET i == FileByName(st[s].name)
     IN st' = [st EXCEPT ![s] =
          IF i = 0
          THEN [@ EXCEPT !.pc = "done",
                         !.res = [NoStreamRes EXCEPT !.status = 404, !.body = "File not found"]]
          ELSE LET fileRecord == files[i]
                   resolved == resolveStoragePath(fileRecord.path)
               IN IF ~resolved.ok \/ fileRecord.iv.null
                  THEN [@ EXCEPT !.pc = "done", !.record = fileRecord,
                                 !.res = StreamErrorResponse(NoStreamRes)]
                  ELSE [@ EXCEPT !.pc = "pipeline", !.record = fileRecord,
                                 !.absolutePath = resolved.path,
                                 !.mode = DecipherMode(fileRecord),
                                 !.headers = TRUE,
                                 !.res = [NoStreamRes EXCEPT !.status = 200,
                                            !.type = IF fileRecord.type = ""
                                                     THEN "application/octet-stream"
                                                     ELSE fileRecord.type]]]
  /\ UNCHANGED <<albums, files, disk, tmp, ffmpegStatic, boot, unlinks, finalised, up, ga>>

\* faulty variant: every row is decrypted with the authenticated cipher
DecipherUpdateGcmOnly(fileRecord, data) ==
  GcmDecrypt(encryptionKey, HexDecode(fileRecord.iv), data)

\* the plaintext decipher.update() emits for the ciphertext read so far
DecipherUpdate(fileRecord, data) ==
  IF Truthy(fileRecord.tag)
  THEN GcmDecrypt(encryptionKey, HexDecode(fileRecord.iv), data)
  ELSE LET raw == CbcDecryptRaw(encryptionKey, HexDecode(fileRecord.iv), data)
       IN SubSeq(raw, 1, Len(raw) - 1)

\* faulty variant: the tagged branch decrypts with a counter mode that checks no tag
DecipherFinalOkNoTagCheck(fileRecord, data) ==
  IF Truthy(fileRecord.tag)
  THEN TRUE
  ELSE CbcPaddingOk(encryptionKey, HexDecode(fileRecord.iv), data)

\* whether decipher.final() succeeds at the end of the ciphertext
DecipherFinalOk(fileRecord, data) ==
  IF Truthy(fileRecord.tag)
  THEN GcmVerify(encryptionKey, HexDecode(fileRecord.iv), data, HexDecode(fileRecord.tag))
  ELSE CbcPaddingOk(encryptionKey, HexDecode(fileRecord.iv), data)

\* the read stream opens the file (or fails), reads it, and the decipher
\* flushes the plaintext of what was read to the response
StreamOpen(s) ==
  /\ st[s].pc = "pipeline"
  /\ LET loc == OpenedLocation(st[s].absolutePath)
     IN st' = [st EXCEPT ![s] =
          IF loc \notin DOMAIN disk
          THEN [@ EXCEPT !.pc = "done", !.res = StreamErrorResponse(@)]
          ELSE [@ EXCEPT !.pc = "final", !.opened = loc, !.data = disk[loc].data,
                         !.fd = TRUE, !.opens = @ + 1,
                         !.res.sent = DecipherUpdate(st[s].record, disk[loc].data)]]
  /\ UNCHANGED <<albums, files, disk, tmp, ffmpegStatic, boot, unlinks, finalised, up, ga>>

\* end of the ciphertext: decipher.final(), then res.end() or the error path
StreamFinal(s) ==
  /\ st[s].pc = "final"
  /\ st' = [st EXCEPT ![s] =
          IF DecipherFinalOk(st[s].record, st[s].data)
          THEN [@ EXCEPT !.pc = "done", !.fd = FALSE, !.res.complete = TRUE]
          ELSE [@ EXCEPT !.pc = "done", !.fd = FALSE, !.res = StreamErrorResponse(@)]]
  /\ UNCHANGED <<albums, files, disk, tmp, ffmpegStatic, boot, unlinks, finalised, up, ga>>

\* the client closes the connection of a request it has sent
ClientDisconnect(s) ==
  /\ st[s].pc \in {"lookup", "pipeline", "final"}
  /\ ~st[s].closed
  /\ st' = [st EXCEPT ![s] = [@ EXCEPT !.closed = TRUE]]
  /\ UNCHANGED <<albums, files, disk, tmp, ffmpegStatic, boot, unlinks, finalised, up, ga>>

\* faulty variant: the streams are chained with pipe(), which leaves the
\* source open when the destination closes
StreamAbortNoDestroy(s) ==
  /\ st[s].pc \in {"pipeline", "final"}
  /\ st[s].closed
  /\ st' = [st EXCEPT ![s] = [@ EXCEPT !.pc = "done", !.res.complete = FALSE]]
  /\ UNCHANGED <<albums, files, disk, tmp, ffmpegStatic, boot, unlinks, finalised, up, ga>>

\* pipeline() sees the response close before its end: it destroys the read
\* stream and the decipher and rejects; the catch block hands the error to
\* next(), and nothing more can be written to the closed connection
StreamAbort(s) ==
  /\ st[s].pc \in {"pipeline", "final"}
  /\ st[s].closed
  /\ st' = [st EXCEPT ![s] = [@ EXCEPT !.pc = "done", !.fd = FALSE,
                                        !.res.complete = FALSE]]
  /\ UNCHANGED <<albums, files, disk, tmp, ffmpegStatic, boot, unlinks, finalised, up, ga>>

(***************************************************************************)
(* The environment: somebody with access to the volume alters or removes   *)
(* a stored object.                                                        *)
(***************************************************************************)
Tamper(loc, i) ==
  /\ loc \in DOMAIN disk
  /\ InsideRoot(loc)
  /\ disk[loc].complete
  /\ ~disk[loc].tampered
  /\ i \in 1..Len(disk[loc].data)
  /\ disk' = [disk EXCEPT ![loc] = [@ EXCEPT !.tampered = TRUE,
                                             !.data[i] = (@ + 1) % ByteMod]]
  /\ UNCHANGED <<albums, files, tmp, ffmpegStatic, boot, unlinks, finalised, up, ga, st>>

ObjectLost(loc) ==
  /\ loc \in DOMAIN disk
  /\ InsideRoot(loc)
  /\ disk[loc].complete
  /\ disk' = Remove(disk, loc)
  /\ UNCHANGED <<albums, files, tmp, ffmpegStatic, boot, unlinks, finalised, up, ga, st>>


(***************************************************************************)
(* The catalog and the volume found at startup (CREATE TABLE IF NOT        *)
(* EXISTS keeps the rows of earlier runs, among them rows of the former    *)
(* AES-256-CBC scheme and rows whose path column was written by hand).     *)
(***************************************************************************)
LegacyIv == [len |-> 16, v |-> 1]
OldIv == [len |-> IvLenGcm, v |-> 2]
LegacyPlain == <<2, 1>>
OldPlain == <<1, 3>>
OldCipher == GcmEncrypt(encryptionKey, OldIv, OldPlain)

Rel(segs) == [abs |-> FALSE, segs |-> segs]
Abs(segs) == [abs |-> TRUE, segs |-> segs]

SeedRow(filename, path, iv, tag) ==
  [album_id |-> 1, filename |-> filename, original_name |-> "old.jpg", path |-> path,
   type |-> "image/jpeg", size |-> 2, iv |-> HexEncode(iv), tag |-> tag]

OldTag == HexEncode(GcmTag(encryptionKey, OldIv, OldCipher))
WrongTag == HexEncode(GcmTag(encryptionKey, OldIv, <<0, 0>>))

SeedRows ==
  { SeedRow("leg.jpg", Rel(<<"uploads", "leg.jpg">>), LegacyIv, Null),
    SeedRow("old.jpg", Rel(<<"uploads", "old.jpg">>), OldIv, OldTag),
    SeedRow("badtag.jpg", Rel(<<"uploads", "old.jpg">>), OldIv, WrongTag),
    SeedRow("absin.jpg", Abs(<<"app", "uploads", "old.jpg">>), OldIv, OldTag),
    SeedRow("dots.jpg", Rel(<<"uploads", "x", "..", ".", "old.jpg">>), OldIv, OldTag),
    SeedRow("esc-rel", Rel(<<"..", "etc", "passwd">>), OldIv, OldTag),
    SeedRow("esc-rel2", Rel(<<"uploads", "..", "secret">>), OldIv, Null),
    SeedRow("esc-abs", Abs(<<"etc", "passwd">>), OldIv, OldTag),
    SeedRow("esc-abs2", Abs(<<"app", "uploads", "..", "secret">>), OldIv, Null),
    SeedRow("dotname", Rel(<<"uploads", "..old.jpg">>), OldIv, OldTag) }

OutsideData == [data |-> <<3, 3>>, complete |-> TRUE, tampered |-> FALSE]

SeedDisk ==
  (uploadsDir \o <<"leg.jpg">> :>
       [data |-> CbcEncrypt(encryptionKey, LegacyIv, LegacyPlain), complete |-> TRUE, tampered |-> FALSE])
  @@ (uploadsDir \o <<"old.jpg">> :> [data |-> OldCipher, complete |-> TRUE, tampered |-> FALSE])
  @@ (uploadsDir \o <<"..old.jpg">> :> [data |-> OldCipher, complete |-> TRUE, tampered |-> FALSE])
  @@ (<<"etc", "passwd">> :> OutsideData)
  @@ (<<"app", "secret">> :> OutsideData)

SeedNames == {r.filename : r \in SeedRows}
\* what the writer of the earlier run produced for the seeded names
SeedFinalised ==
  [n \in {"leg.jpg", "old.jpg", "badtag.jpg", "absin.jpg", "dots.jpg", "dotname"} |->
     IF n = "leg.jpg"
     THEN [ct |-> CbcEncrypt(encryptionKey, LegacyIv, LegacyPlain), tag |-> Null]
     ELSE [ct |-> OldCipher, tag |-> OldTag]]

\* names a client may ask for that no row carries
UnknownNames == {"nope", "../../etc/passwd"}

\* names a client may ask for before a row carries them
FutureNames == {ObjectUuid(1, 1) \o ".jpg", ObjectUuid(1, 1) \o ".mp4"}

RequestNames == {files[i].filename : i \in 1..Len(files)} \cup UnknownNames \cup FutureNames

Hex16 == "0123456789abcdef"
HexKey == [null |-> FALSE, str |-> Hex16 \o Hex16 \o Hex16 \o Hex16]

\* the process after a startup with a hexadecimal key
Booted == [phase |-> "listening", rawKey |-> HexKey,
           key |-> loadEncryptionKey(HexKey).key, loads |-> 1]

DataInit(seeds) ==
  /\ unlinks = <<>>
  /\ \E seed \in seeds :
       /\ files = IF seed = NoRecord THEN <<>> ELSE <<seed>>
       /\ albums = IF seed = NoRecord THEN <<>> ELSE <<OldToken>>
  /\ disk = SeedDisk
  /\ tmp = <<>>
  /\ ffmpegStatic \in BOOLEAN
  /\ finalised = SeedFinalised
  /\ up = [u \in Uploads |-> UpIdle]
  /\ ga = [g \in Gets |-> GaIdle]
  /\ st = [s \in Streams |-> StIdle]

InitWith(seeds) == boot = Booted /\ DataInit(seeds)

UploadStep(u, inputs) ==
  \/ \E fs \in inputs : UploadUnsupported(u, fs)
  \/ UploadNoFiles(u)
  \/ \E fs \in inputs : UploadBegin(u, fs)
  \/ AlbumInsertOk(u)
  \/ AlbumInsertErr(u)
  \/ ConvertEnd(u)
  \/ \E leftover \in BOOLEAN : ConvertError(u, leftover)
  \/ UnlinkOriginal(u)
  \/ EncryptOk(u)
  \/ \E created \in BOOLEAN : EncryptError(u, created)
  \/ PersistFinally(u)
  \/ InsertFileOk(u)
  \/ InsertFileErr(u)
  \/ UploadFinally(u)

GetAlbumStep(g) ==
  \/ \E token \in Tokens : GetAlbumRequest(g, token)
  \/ GetAlbumLookup(g)
  \/ GetAlbumList(g)

StreamStep(s) ==
  \/ \E name \in RequestNames : StreamRequest(s, name)
  \/ StreamLookup(s)
  \/ StreamOpen(s)
  \/ StreamFinal(s)

\* the stored objects the catalog rows point at
CataloguedObjects ==
  {OpenedLocation(resolveStoragePath(files[i].path).path) :
     i \in {h \in 1..Len(files) : resolveStoragePath(files[h].path).ok}}

EnvStep ==
  \E loc \in CataloguedObjects :
    \/ \E i \in 1..Len(OldCipher) : Tamper(loc, i)
    \/ ObjectLost(loc)

(***************************************************************************)
(* Spec: concurrent uploads and album listings over a catalog that is      *)
(* empty or holds one album of an earlier run.                             *)
(***************************************************************************)
Init == InitWith({SeedRow("old.jpg", Rel(<<"uploads", "old.jpg">>), OldIv, OldTag)})

Next ==
  \/ \E u \in Uploads : UploadStep(u, UploadInputs(u))
  \/ \E g \in Gets : GetAlbumStep(g)

Spec == Init /\ [][Next]_vars

(***************************************************************************)
(* StreamSpec: downloads, one upload and the environment over a catalog    *)
(* holding any one row of an earlier run.                                  *)
(***************************************************************************)
StreamInit == InitWith(SeedRows \cup {NoRecord})

StreamSpecNext ==
  \/ UploadStep(1, UploadInputs(2))
  \/ \E s \in Streams : StreamStep(s)
  \/ EnvStep

StreamSpec == StreamInit /\ [][StreamSpecNext]_vars


(***************************************************************************)
(* PathSpec: downloads over a catalog whose one row has any stored path of *)
(* at most MaxSegs components, relative or absolute.                       *)
(***************************************************************************)
PathSegments == {"..", ".", "app", "uploads", "old.jpg", "..old.jpg", "etc"}

StoredPaths ==
  {[abs |-> a, segs |-> q] : a \in BOOLEAN, q \in SeqsUpTo(PathSegments, MaxSegs)}

PathInit == InitWith({SeedRow("p.jpg", p, OldIv, OldTag) : p \in StoredPaths})

PathNext == \E s \in Streams : StreamStep(s)

PathSpec == PathInit /\ [][PathNext]_vars

(***************************************************************************)
(* Properties of the upload and album handlers (checked under Spec).       *)
(***************************************************************************)
AlbumRows(u) == {i \in 1..Len(albums) : albums[i] = uuidv4(u)}
FileRows(albumId) == {i \in 1..Len(files) : files[i].album_id = albumId}

\* the temporary files an upload owns: its multer files and its transcode outputs
OwnedTemps(u) ==
  {FilePath(u, i) : i \in 1..Len(up[u].files)} \cup {ConvertedName(u, k) : k \in 1..Len(up[u].files)}

\* C1: a GetAlbum for the token of an upload never answers with a file list
\* that is empty or shorter than the upload: until the upload has completed
\* it answers NotFound.
C1_GetAlbumNeverPartial ==
  \A g \in Gets, u \in Uploads :
    (ga[g].pc = "done" /\ ga[g].token = uuidv4(u) /\ ga[g].res.status = 200)
      => /\ Len(ga[g].res.files) = Len(up[u].files)
         /\ Len(ga[g].res.files) > 0

\* C2: a GetAlbum issued after StoreUpload answered success lists exactly the
\* N uploaded files, in one album, and success is answered only once all N
\* file records are in the catalog.
C2_CompleteAfterSuccess ==
  \A u \in Uploads :
    /\ up[u].res.status = 200 =>
         /\ Cardinality(FileRows(up[u].albumId)) = Len(up[u].files)
         /\ Cardinality(AlbumRows(u)) = 1
         /\ \A i \in 1..Len(up[u].files) :
              \E h \in FileRows(up[u].albumId) : files[h] = up[u].fileRecords[i]
    /\ \A g \in Gets :
         (ga[g].pc = "done" /\ ga[g].token = uuidv4(u) /\ u \in ga[g].after)
           => /\ ga[g].res.status = 200
              /\ Len(ga[g].res.files) = Len(up[u].files)
              /\ \A i \in 1..Len(up[u].files) :
                   /\ ga[g].res.files[i].original_name = up[u].files[i].originalname
                   /\ ga[g].res.files[i].filename = up[u].fileRecords[i].filename

C2_Witness ==
  \E g \in Gets, u \in Uploads :
    /\ ga[g].pc = "done" /\ ga[g].token = uuidv4(u) /\ u \in ga[g].after
    /\ Len(up[u].files) = MaxFiles
    /\ Len(ga[g].res.files) = MaxFiles

\* C3: an upload that failed after it started processing leaves no album row
\* and no file record behind once it has finished.
C3_FailedUploadLeavesNothing ==
  \A u \in Uploads :
    (up[u].pc = "done" /\ up[u].res.status = 500)
      => /\ AlbumRows(u) = {}
         /\ up[u].albumId # 0 => FileRows(up[u].albumId) = {}

\* C4: every file record of the catalog names an object whose encryption
\* pipeline ran to completion: the object is on the volume, whole, with the
\* size and tag the finished cipher produced.
C4_CataloguedObjectsFinalised ==
  \A i \in 1..Len(files) :
    /\ files[i].filename \in DOMAIN finalised
    /\ files[i].tag = finalised[files[i].filename].tag
    /\ LET loc == OpenedLocation(resolveStoragePath(files[i].path).path)
       IN /\ loc \in DOMAIN disk
          /\ disk[loc].complete
          /\ disk[loc].data = finalised[files[i].filename].ct

C4_Witness ==
  /\ \E loc \in DOMAIN disk : ~disk[loc].complete
  /\ \E u \in Uploads : up[u].res.status = 200 /\ FileRows(up[u].albumId) # {}

\* C5: once an upload has finished, none of its temporary files (multer
\* files, transcode outputs) is left in the temporary directory.
C5_TempFilesRemoved ==
  \A u \in Uploads :
    up[u].pc = "done" => OwnedTemps(u) \cap DOMAIN tmp = {}


(***************************************************************************)
(* Properties of the download handler (checked under StreamSpec, C7 under  *)
(* PathSpec).                                                              *)
(***************************************************************************)
\* the stored path, taken from __dirname when relative, leaves the storage root
Escapes(storedPath) ==
  ~InsideRoot(NormalizeFrom(<<>>, IF storedPath.abs THEN storedPath.segs
                                    ELSE DirName \o storedPath.segs))

\* the answer to a request for a name no row carries
UnknownAnswer == [NoStreamRes EXCEPT !.status = 404, !.body = "File not found"]

\* C6: a download of a record whose stored path fails containment gets the
\* same answer as a download of an unknown name (NotFound).
C6_ContainmentFailureLooksUnknown ==
  \A s \in Streams :
    (st[s].pc = "done" /\ st[s].record # NoRecord /\ Escapes(st[s].record.path))
      => st[s].res = UnknownAnswer

\* C7: whatever the stored path of a record, a download opens no file outside
\* the storage root; a path that normalizes outside the root is refused
\* before a header is set and before a read stream exists.
C7_NeverOpensOutsideRoot ==
  \A s \in Streams :
    /\ st[s].opened # <<>> => InsideRoot(st[s].opened)
    /\ st[s].absolutePath # <<>> => InsideRoot(OpenedLocation(st[s].absolutePath))
    /\ (st[s].record # NoRecord /\ Escapes(st[s].record.path))
         => /\ st[s].pc = "done"
            /\ ~st[s].headers
            /\ st[s].absolutePath = <<>>
            /\ st[s].opened = <<>>
            /\ st[s].res.sent = <<>>
            /\ ~st[s].res.complete

C7_Witness ==
  \E s \in Streams :
    /\ st[s].pc = "done"
    /\ st[s].record.path.abs
    /\ Len(st[s].record.path.segs) > Len(uploadsDir)
    /\ SubSeq(st[s].record.path.segs, 1, Len(uploadsDir)) = uploadsDir
    /\ Escapes(st[s].record.path)
    /\ st[s].res.status = 500

\* C8: a download of a name that is the stored name of no record answers
\* NotFound and opens no file.
C8_UnknownNameNotFound ==
  \A s \in Streams :
    (/\ st[s].pc \in {"pipeline", "final", "done"}
     /\ \A i \in 1..Len(files) : files[i].filename # st[s].name)
      => /\ st[s].pc = "done"
         /\ st[s].res = UnknownAnswer
         /\ st[s].opened = <<>>
         /\ st[s].absolutePath = <<>>

C8_Witness ==
  \E s \in Streams :
    /\ st[s].pc = "done"
    /\ st[s].name = "../../etc/passwd"
    /\ st[s].res.status = 404
    /\ Len(files) > 0

\* C9: when the record exists and its path is contained but the object is
\* missing on the volume, the download answers 'not found', which differs
\* from the answer to a decryption failure.
C9_MissingObjectIsNotFound ==
  \A s \in Streams :
    (st[s].pc = "done" /\ st[s].headers /\ st[s].opened = <<>>)
      => /\ st[s].res.status = 404
         /\ st[s].res.body # "Internal server error"

\* C10: a download of a tagged record whose stored ciphertext or tag is not
\* what the writer produced never ends as a complete, successful response.
C10_TamperedNeverCompletes ==
  \A s \in Streams :
    (/\ st[s].pc = "done"
     /\ st[s].opened # <<>>
     /\ Truthy(st[s].record.tag)
     /\ st[s].record.filename \in DOMAIN finalised
     /\ \/ st[s].data # finalised[st[s].record.filename].ct
        \/ st[s].record.tag # finalised[st[s].record.filename].tag)
      => /\ ~st[s].res.complete
         /\ st[s].res.status = 500 \/ st[s].res.sent # <<>>

C10_Witness ==
  \E s \in Streams :
    /\ st[s].pc = "done"
    /\ st[s].record.filename \in FutureNames
    /\ st[s].opened # <<>>
    /\ st[s].data # finalised[st[s].record.filename].ct
    /\ ~st[s].res.complete


(***************************************************************************)
(* RoundTripSpec: one upload of one file with any content of at most       *)
(* MaxLen bytes under any of the name and type combinations below, and     *)
(* downloads, over an empty catalog and an undisturbed volume.             *)
(***************************************************************************)
MaxLen == 2

Contents == SeqsUpTo(0..(ByteMod - 1), MaxLen)

NameKinds ==
  { [originalname |-> "a.jpg", mimetype |-> "image/jpeg"],
    [originalname |-> "b.MOV", mimetype |-> "video/quicktime"],
    [originalname |-> "d.mov", mimetype |-> "video/mp4"],
    [originalname |-> "e.mp4", mimetype |-> "video/quicktime"],
    [originalname |-> "f.Qt", mimetype |-> "image/png"],
    [originalname |-> "g", mimetype |-> "image/png"],
    [originalname |-> "c.txt", mimetype |-> "text/plain"],
    [originalname |-> "..", mimetype |-> "image/png"],
    [originalname |-> "h..", mimetype |-> "image/gif"],
    [originalname |-> "x/../../y.PNG", mimetype |-> "image/png"] }

RoundTripInputs ==
  { <<[originalname |-> n.originalname, mimetype |-> n.mimetype, content |-> c]>> :
      n \in NameKinds, c \in Contents }

RoundTripInit == InitWith({NoRecord})

RoundTripNext ==
  \/ UploadStep(1, RoundTripInputs)
  \/ \E s \in Streams : StreamStep(s)

RoundTripSpec == RoundTripInit /\ [][RoundTripNext]_vars

(***************************************************************************)
(* Properties of the write and read paths together (RoundTripSpec).        *)
(***************************************************************************)
\* the uploaded files the specification requires to be transcoded
QuickTimeUpload(file) ==
  file.mimetype = "video/quicktime" \/ file.originalname \in {"b.MOV", "d.mov", "f.Qt"}

\* the downloads that ended and whose row is the one upload 1 wrote for its file
DownloadsOfUpload ==
  {s \in Streams : /\ st[s].pc = "done"
                   /\ up[1].res.status = 200
                   /\ st[s].record.album_id = up[1].albumId
                   /\ st[s].record.filename = up[1].fileRecords[1].filename}

WrittenRecords ==
  {files[i] : i \in {h \in 1..Len(files) : files[h].filename \notin SeedNames}}
    \cup UNION {{up[u].fileRecords[i] : i \in 1..Len(up[u].fileRecords)} : u \in Uploads}

\* C12: every file record the upload handler writes carries a 12-byte IV and
\* the tag the GCM cipher produced for the stored object, and no download of
\* such a record uses the legacy cipher.
C12_NewWritesAuthenticated ==
  /\ \A r \in WrittenRecords :
       /\ ~r.iv.null
       /\ HexDecode(r.iv).len = 12
       /\ Truthy(r.tag)
       /\ r.filename \in DOMAIN finalised
       /\ r.tag = finalised[r.filename].tag
  /\ \A s \in Streams :
       (st[s].mode # "" /\ st[s].record.filename \notin SeedNames)
         => st[s].mode = "aes-256-gcm"

C12_Witness ==
  \E s \in Streams :
    /\ st[s].pc = "done"
    /\ st[s].record \in WrittenRecords
    /\ st[s].mode = "aes-256-gcm"
    /\ st[s].res.complete

\* C13: the download handler takes the authenticated cipher exactly for the
\* rows that have a tag and completes only when the stored tag verifies; a
\* row without a tag is decrypted with the legacy cipher, which checks the
\* padding alone, and an unaltered legacy object is delivered as its
\* original bytes.
C13_ModeFromTagPresence ==
  \A s \in Streams :
    (st[s].pc = "done" /\ st[s].opened # <<>>)
      => /\ st[s].mode = (IF st[s].record.tag.null THEN "aes-256-cbc" ELSE "aes-256-gcm")
         /\ st[s].mode = "aes-256-gcm"
              => (st[s].res.complete
                    <=> HexDecode(st[s].record.tag)
                          = GcmTag(encryptionKey, HexDecode(st[s].record.iv), st[s].data))
         /\ st[s].mode = "aes-256-cbc"
              => /\ st[s].res.complete
                      <=> CbcPaddingOk(encryptionKey, HexDecode(st[s].record.iv), st[s].data)
                 /\ st[s].data = CbcEncrypt(encryptionKey, LegacyIv, LegacyPlain)
                      => (st[s].res.complete /\ st[s].res.sent = LegacyPlain)

C13_Witness ==
  \E s \in Streams :
    /\ st[s].pc = "done"
    /\ st[s].record.filename = "leg.jpg"
    /\ st[s].mode = "aes-256-cbc"
    /\ st[s].res.complete
    /\ st[s].res.sent = LegacyPlain

(***************************************************************************)
(* Further properties of the upload and album handlers (Spec).             *)
(***************************************************************************)
\* C14: an album request whose token is not a well-formed identifier is
\* answered 400 without any catalog query; a request with a well-formed
\* token that no album row carries is answered 404 after the album lookup.
C14_TokenValidatedBeforeLookup ==
  \A g \in Gets :
    /\ (ga[g].pc # "idle" /\ ga[g].token \in MalformedTokens)
         => /\ ga[g].pc = "done"
            /\ ga[g].res.status = 400
            /\ ga[g].res.body = "Invalid album identifier"
            /\ ga[g].queries = 0
    /\ (/\ ga[g].pc = "done"
        /\ ga[g].token \notin MalformedTokens
        /\ \A i \in 1..Len(albums) : albums[i] # ga[g].token)
         => /\ ga[g].res.status = 404
            /\ ga[g].res.body = "Album not found"
            /\ ga[g].queries = 1

C14_Witness ==
  \E g \in Gets :
    /\ ga[g].pc = "done"
    /\ ga[g].token \in MalformedTokens
    /\ ga[g].token.grp = <<8, 4, 4, 4, 12>>
    /\ ga[g].token.hex
    /\ ga[g].res.status = 400
    /\ \E u \in Uploads : up[u].res.status = 200

\* the stored objects and transcode outputs named after file k of upload u
StoredObjectsOf(u, k) ==
  {loc \in DOMAIN disk : Len(loc) = 3 /\ StartsWith(loc[3], ObjectUuid(u, k))}

ObjectsOf(u, k) ==
  StoredObjectsOf(u, k)
    \cup {n \in DOMAIN finalised : StartsWith(n, ObjectUuid(u, k))}
    \cup {n \in DOMAIN tmp : n = ConvertedName(u, k)}

\* C15: an upload answered 400 (no file, or a file that is neither image nor
\* video) has no album row, no file row, no stored object and no transcode
\* output, and never started persisting a file.
C15_RejectedUploadNoSideEffect ==
  \A u \in Uploads :
    up[u].res.status = 400
      => /\ up[u].res.body \in {"No files uploaded", "MulterError"}
         /\ up[u].pc = "done"
         /\ AlbumRows(u) = {}
         /\ up[u].albumId = 0
         /\ up[u].k = 0
         /\ up[u].fileRecords = <<>>
         /\ \A k \in 1..MaxFiles : ObjectsOf(u, k) = {}
         /\ FileRows(up[u].albumId) = {}

C15_Witness ==
  \E u, v \in Uploads :
    /\ up[u].res.status = 400
    /\ up[u].res.body = "MulterError"
    /\ up[v].res.status = 200
    /\ Len(files) > 1

\* C17: when a file needs transcoding and the transcoder is unavailable, or
\* the transcoder reports an error for it, the upload ends with an error
\* response and that file has no stored object and no record, neither in
\* the catalog nor among the records the upload holds.
C17_TranscodeFailurePersistsNothing ==
  \A u \in Uploads :
    \A k \in 1..Len(up[u].files) :
      LET NothingOfFile ==
            /\ StoredObjectsOf(u, k) = {}
            /\ Len(up[u].fileRecords) < k
            /\ \A i \in 1..Len(files) : ~StartsWith(files[i].filename, ObjectUuid(u, k))
            /\ up[u].res.status \in {0, 500}
            /\ up[u].pc = "done" => up[u].res.status = 500
          TranscodeFailed ==
            /\ up[u].k = k
            /\ up[u].cur.failed
            /\ up[u].cur.workingPath = FilePath(u, k)
            /\ up[u].cur.filename = ""
      IN /\ (QuickTimeUpload(up[u].files[k]) /\ ~ffmpegStatic) => NothingOfFile
         /\ TranscodeFailed => (up[u].pc \in {"pfinally", "finally", "done"} /\ NothingOfFile)

C17_Witness ==
  /\ ~ffmpegStatic
  /\ Len(up[1].files) = 2
  /\ QuickTimeUpload(up[1].files[2])
  /\ up[1].k = 2
  /\ up[1].cur.failed
  /\ up[1].pc = "done"
  /\ up[1].res.status = 500
  /\ StoredObjectsOf(1, 1) # {}

(***************************************************************************)
(* Further properties of the write path (RoundTripSpec).                   *)
(***************************************************************************)
\* the plaintext of the stored object a record points at
StoredPlain(r) ==
  GcmDecrypt(encryptionKey, HexDecode(r.iv), disk[ObjectPath(r.filename)].data)

\* C16: a file is transcoded exactly when its declared type is
\* video/quicktime or its extension is .mov or .qt in any letter case; the
\* record of a transcoded file has type video/mp4, a stored name ending in
\* .mp4 and an object holding the transcoder's output; the record of any
\* other file keeps the declared type and the extension of the original
\* name, and its object holds the uploaded bytes.
C16_TranscodeRule ==
  LET f == up[1].files[1]
  IN /\ up[1].pc \in {"convert", "unlinkOrig"} => QuickTimeUpload(f)
     /\ (up[1].pc = "encrypt" /\ QuickTimeUpload(f)) => up[1].cur.converted
     /\ up[1].fileRecords # <<>>
          => LET r == up[1].fileRecords[1]
             IN IF QuickTimeUpload(f)
                THEN /\ r.type = "video/mp4"
                     /\ ExtName(r.filename) = ".mp4"
                     /\ StoredPlain(r) = Mp4Of(f.content)
                ELSE /\ r.type = f.mimetype
                     /\ ExtName(r.filename) = ExtName(f.originalname)
                     /\ StoredPlain(r) = f.content

C16_Witness ==
  /\ up[1].res.status = 200
  /\ up[1].files[1].originalname = "f.Qt"
  /\ up[1].files[1].mimetype = "image/png"
  /\ files[1].type = "video/mp4"
  /\ files[1].filename = ObjectUuid(1, 1) \o ".mp4"
  /\ StoredPlain(files[1]) = Mp4Of(up[1].files[1].content)

(***************************************************************************)
(* HangSpec: one upload of one file and album listings, with fairness for  *)
(* the steps of the upload handler that depend on the event loop, the      *)
(* database and the file system.  The external transcoder is not fair: the *)
(* ffmpeg process may emit neither 'end' nor 'error', and convertToMp4     *)
(* arms no timer.                                                          *)
(***************************************************************************)
HandlerStep(u) ==
  \/ AlbumInsertOk(u)
  \/ AlbumInsertErr(u)
  \/ UnlinkOriginal(u)
  \/ EncryptOk(u)
  \/ \E created \in BOOLEAN : EncryptError(u, created)
  \/ PersistFinally(u)
  \/ InsertFileOk(u)
  \/ InsertFileErr(u)
  \/ UploadFinally(u)

HangInit == InitWith({NoRecord})

HangNext ==
  \/ UploadStep(1, UploadInputs(2))
  \/ \E g \in Gets : GetAlbumStep(g)

HangSpec == HangInit /\ [][HangNext]_vars /\ WF_vars(HandlerStep(1))

\* C18: an upload that has started a transcode ends (claimed for every
\* behaviour, also those in which the transcoder never completes).
C18_UploadEndsDespiteTranscoder ==
  (up[1].pc = "convert") ~> (up[1].pc = "done")

(***************************************************************************)
(* KeySpec: the startup of the process under any of the ENCRYPTION_KEY     *)
(* settings below, followed by album and download requests.                *)
(***************************************************************************)
B40 == "ABCDEFGHIJKLMNOPQRSTUVWXYZabcdefghijklmn"

RawKeys ==
  {Null} \cup
  { [null |-> FALSE, str |-> t] :
      t \in { "",
              "secret",
              HexKey.str,
              "ABCDEF0123456789" \o SubSeq(HexKey.str, 17, 64),
              SubSeq(HexKey.str, 1, 63),
              SubSeq(HexKey.str, 1, 63) \o "g",
              B40 \o "abc=",
              B40 \o "abc",
              B40 \o "a-_",
              B40 \o "ab==",
              B40 \o "abcd",
              B40 \o "!a*b#c" } }

KeyInit ==
  /\ boot \in {[phase |-> "start", rawKey |-> k, key |-> Null, loads |-> 0] : k \in RawKeys}
  /\ DataInit({SeedRow("old.jpg", Rel(<<"uploads", "old.jpg">>), OldIv, OldTag)})

KeyNext ==
  \/ LoadKey
  \/ Listen
  \/ \E g \in Gets : GetAlbumStep(g)
  \/ \E s \in Streams : StreamStep(s)

KeySpec == KeyInit /\ [][KeyNext]_vars

\* C19: the key is loaded once, before the process listens; the process
\* listens and serves requests only when ENCRYPTION_KEY is a 64-character
\* hexadecimal string or a base64 string of exactly 32 bytes, and with the
\* key that was loaded from it.
C19_ServesOnlyWithWellFormedSecret ==
  LET \* a 64-character hexadecimal string
      HexSecret(str) == Len(str) = 64 /\ AllCharsIn(str, HexDigits)
      \* a base64 string of 32 bytes: 43 digits, then at most the padding
      Base64Secret(str) ==
        /\ Len(str) \in 43..45
        /\ AllCharsIn(SubSeq(str, 1, 43), Base64Alphabet)
        /\ SubSeq(str, 44, Len(str)) \in {"", "=", "=="}
  IN
  /\ boot.loads <= 1
  /\ boot.phase \in {"loaded", "listening"}
       => (boot.loads = 1 /\ boot.key = loadEncryptionKey(boot.rawKey).key /\ ~boot.key.null)
  /\ (\E g \in Gets : ga[g].pc # "idle") \/ (\E s \in Streams : st[s].pc # "idle")
       => Listening
  /\ Listening
       => /\ ~boot.rawKey.null
          /\ HexSecret(boot.rawKey.str) \/ Base64Secret(boot.rawKey.str)

(***************************************************************************)
(* CancelSpec: downloads whose client may close the connection at any      *)
(* time, with fairness for the steps the server takes on its own (the      *)
(* event loop runs every callback that is ready; the catalog lookup and    *)
(* the file system calls return).                                          *)
(***************************************************************************)
ServerStreamStep(s) ==
  \/ StreamLookup(s)
  \/ StreamOpen(s)
  \/ StreamFinal(s)
  \/ StreamAbort(s)

CancelInit ==
  InitWith({ SeedRow("leg.jpg", Rel(<<"uploads", "leg.jpg">>), LegacyIv, Null),
             SeedRow("old.jpg", Rel(<<"uploads", "old.jpg">>), OldIv, OldTag),
             SeedRow("badtag.jpg", Rel(<<"uploads", "old.jpg">>), OldIv, WrongTag),
             NoRecord })

CancelNext ==
  \E s \in Streams :
    \/ StreamStep(s)
    \/ ClientDisconnect(s)
    \/ StreamAbort(s)

CancelSpec ==
  CancelInit /\ [][CancelNext]_vars /\ \A s \in Streams : WF_vars(ServerStreamStep(s))

\* C20: after the client has closed the connection the download ends and the
\* file descriptor of the stored object is released; the object is opened at
\* most once per request.
C20_DisconnectReleasesHandle ==
  /\ \A s \in Streams : st[s].closed ~> (st[s].pc = "done" /\ ~st[s].fd)
  /\ [](\A s \in Streams : st[s].opens <= 1)

C20_Witness ==
  \E s \in Streams :
    /\ st[s].closed
    /\ st[s].pc = "done"
    /\ st[s].opens = 1
    /\ ~st[s].fd
    /\ ~st[s].res.complete
    /\ st[s].res.status = 200

(***************************************************************************)
(* Properties of ordering, sequencing and the frame of the handlers        *)
(* (Spec).                                                                 *)
(***************************************************************************)
\* C21: the files an album listing returns are, position by position, the
\* files of the upload in the order of the request, whatever rows other
\* uploads inserted in between.
C21_ListingKeepsUploadOrder ==
  \A g \in Gets :
    \A u \in Uploads :
      (ga[g].pc = "done" /\ ga[g].res.status = 200 /\ ga[g].token = uuidv4(u))
        => /\ Len(ga[g].res.files) <= Len(up[u].files)
           /\ \A i \in 1..Len(ga[g].res.files) :
                /\ ga[g].res.files[i].original_name = up[u].files[i].originalname
                /\ StartsWith(ga[g].res.files[i].filename, ObjectUuid(u, i))

C21_Witness ==
  \E g \in Gets :
    /\ ga[g].pc = "done"
    /\ ga[g].res.status = 200
    /\ ga[g].token = uuidv4(1)
    /\ Len(ga[g].res.files) = 2
    /\ ga[g].res.files[1].original_name # ga[g].res.files[2].original_name
    /\ \E i, j, h \in 1..Len(files) :
         /\ i < j /\ j < h
         /\ files[i].album_id = up[1].albumId
         /\ files[j].album_id = up[2].albumId
         /\ files[h].album_id = up[1].albumId

\* C22: while file k of an upload is in its transcode, encrypt or cleanup
\* step, every earlier file of the upload has completed its whole cycle (it
\* has its record and its finished object, and its temporary files are
\* gone) and no later file has been touched (its upload file is still in
\* place, and it has neither a transcode output nor a stored object).
C22_FilesProcessedOneAtATime ==
  \A u \in Uploads :
    up[u].pc \in {"convert", "unlinkOrig", "encrypt", "pfinally"}
      => /\ up[u].k \in 1..Len(up[u].files)
         /\ Len(up[u].fileRecords) = up[u].k - 1
         /\ \A i \in 1..(up[u].k - 1) :
              /\ FilePath(u, i) \notin DOMAIN tmp
              /\ ConvertedName(u, i) \notin DOMAIN tmp
              /\ up[u].fileRecords[i].filename \in DOMAIN finalised
              /\ StoredObjectsOf(u, i) = {ObjectPath(up[u].fileRecords[i].filename)}
              /\ disk[ObjectPath(up[u].fileRecords[i].filename)].complete
         /\ \A i \in (up[u].k + 1)..Len(up[u].files) :
              /\ FilePath(u, i) \in DOMAIN tmp
              /\ tmp[FilePath(u, i)] = up[u].files[i].content
              /\ ConvertedName(u, i) \notin DOMAIN tmp
              /\ StoredObjectsOf(u, i) = {}

C22_Witness ==
  /\ up[1].pc = "encrypt"
  /\ up[1].k = 2
  /\ up[1].cur.converted
  /\ Len(up[1].fileRecords) = 1
  /\ up[2].pc = "encrypt"

\* what shows that the processing of file k of upload u has failed: the
\* handler holds the error, or the file's object was left unfinished, or the
\* file was reached, needs the transcoder and there is none
FileFailed(u, k) ==
  \/ up[u].k = k /\ up[u].cur.failed
  \/ \E loc \in StoredObjectsOf(u, k) : ~disk[loc].complete
  \/ up[u].k >= k /\ ~ffmpegStatic /\ QuickTimeUpload(up[u].files[k])

\* C23: once the processing of file k of an upload has failed, no later file
\* of the upload is ever started: none gets a transcode output or a stored
\* object, and the upload holds no record beyond file k - 1.
C23_FailureAbortsRemainingFiles ==
  \A u \in Uploads :
    \A k \in 1..Len(up[u].files) :
      FileFailed(u, k)
        => /\ up[u].k = k
           /\ up[u].pc \in {"pfinally", "finally", "done"}
           /\ Len(up[u].fileRecords) = k - 1
           /\ \A i \in (k + 1)..Len(up[u].files) :
                /\ StoredObjectsOf(u, i) = {}
                /\ ConvertedName(u, i) \notin DOMAIN tmp
                /\ \A n \in DOMAIN finalised : ~StartsWith(n, ObjectUuid(u, i))

C23_Witness ==
  /\ Len(up[1].files) = 2
  /\ up[1].pc = "done"
  /\ up[1].k = 1
  /\ up[1].cur.failed
  /\ \E loc \in StoredObjectsOf(1, 1) : ~disk[loc].complete
  /\ StoredObjectsOf(1, 2) = {}
  /\ up[1].res.status = 500

(***************************************************************************)
(* Agreement of the write path and the read path (RoundTripSpec).          *)
(***************************************************************************)
\* C24: the path column of every record the upload handler writes is a
\* relative path that resolveStoragePath accepts, and it resolves to the
\* very location inside the uploads directory where the object was written;
\* no download of such a record ends with the server error.
C24_WrittenPathsPassContainment ==
  /\ \A r \in WrittenRecords :
       LET resolved == resolveStoragePath(r.path)
       IN /\ ~r.path.abs
          /\ resolved.ok
          /\ InsideRoot(OpenedLocation(resolved.path))
          /\ OpenedLocation(resolved.path) = ObjectPath(r.filename)
          /\ OpenedLocation(resolved.path) \in DOMAIN disk
  /\ \A s \in Streams :
       (st[s].pc = "done" /\ st[s].record \in WrittenRecords)
         => (st[s].res.status = 200 /\ st[s].opened = ObjectPath(st[s].record.filename))

C24_Witness ==
  \E s \in Streams :
    /\ st[s].pc = "done"
    /\ st[s].record \in WrittenRecords
    /\ st[s].record.original_name = "x/../../y.PNG"
    /\ st[s].record.filename = ObjectUuid(1, 1) \o ".PNG"
    /\ st[s].res.complete

(***************************************************************************)
(* FrameSpec: uploads of one file each (an image or a rejected text file   *)
(* for the first upload, a QuickTime video for the others), listings of    *)
(* the first album and downloads of its object, all concurrent, over an    *)
(* empty catalog.                                                          *)
(***************************************************************************)
FrameInputs(u) ==
  {<<f>> : f \in {k \in FileKinds : IF u = 1 THEN k.mimetype # "video/quicktime"
                                             ELSE k.mimetype = "video/quicktime"}}

FrameInit == InitWith({NoRecord})

FrameNext ==
  \/ \E u \in Uploads : UploadStep(u, FrameInputs(u))
  \/ \E g \in Gets :
       \/ \E token \in {uuidv4(1), UnknownToken} : GetAlbumRequest(g, token)
       \/ GetAlbumLookup(g)
       \/ GetAlbumList(g)
  \/ \E s \in Streams :
       \/ \E name \in FutureNames : StreamRequest(s, name)
       \/ StreamLookup(s)
       \/ StreamOpen(s)
       \/ StreamFinal(s)

FrameSpec == FrameInit /\ [][FrameNext]_vars

\* C25: every step keeps the album rows and the file rows that exist, as
\* they are and where they are; a step of an album listing or of a download
\* changes neither table nor the volume; a step of an upload adds only rows
\* of its own album and leaves every object that is not its own untouched.
C25_NoUpdateNoDelete ==
  [][ LET \* a location of the volume that holds an object written by upload u
          OwnObject(u, loc) ==
            /\ Len(loc) = 3
            /\ \E k \in 1..MaxFiles : StartsWith(loc[3], ObjectUuid(u, k))
      IN
      /\ Len(albums') >= Len(albums)
      /\ SubSeq(albums', 1, Len(albums)) = albums
      /\ Len(files') >= Len(files)
      /\ SubSeq(files', 1, Len(files)) = files
      /\ (ga' # ga \/ st' # st) => (albums' = albums /\ files' = files /\ disk' = disk)
      /\ \A u \in Uploads :
           up'[u] # up[u]
             => /\ \A i \in (Len(albums) + 1)..Len(albums') : albums'[i] = uuidv4(u)
                /\ \A i \in (Len(files) + 1)..Len(files') :
                     /\ files'[i].album_id = up[u].albumId
                     /\ albums[files'[i].album_id] = uuidv4(u)
                /\ \A loc \in DOMAIN disk :
                     ~OwnObject(u, loc) => (loc \in DOMAIN disk' /\ disk'[loc] = disk[loc])
    ]_vars

C25_Witness ==
  /\ \A u \in Uploads : up[u].res.status = 200
  /\ Len(albums) = MaxUploads
  /\ Len(files) = MaxUploads
  /\ \E g \in Gets : ga[g].pc = "done" /\ ga[g].res.status = 200
  /\ \E s \in Streams : st[s].pc = "done" /\ st[s].res.complete

(***************************************************************************)
(* UnlinkSpec: safeUnlink on its own.  The temp directory holds any subset *)
(* of UnlinkFiles; safeUnlink is called up to MaxCalls times with any of   *)
(* UnlinkPaths, and fs.promises.unlink ends with any error code the file   *)
(* system can give: none or a refusal for a file that exists, ENOENT for   *)
(* one that does not.                                                      *)
(***************************************************************************)
MaxCalls == 3

UnlinkFiles == {TempName(1, 1, ".jpg"), ConvertedName(1, 1)}
UnlinkPaths == UnlinkFiles \cup {"", TempName(1, 2, "")}

UnlinkCodes(t, targetPath) ==
  IF targetPath \in DOMAIN t THEN {"", "EACCES", "EBUSY"} ELSE {"ENOENT"}

UnlinkInit ==
  /\ boot = Booted
  /\ DataInit({NoRecord})

\* the temp directory as another process or an earlier request left it
TempAppears(n) ==
  /\ unlinks = <<>>
  /\ n \in UnlinkFiles \ DOMAIN tmp
  /\ tmp' = Put(tmp, n, <<0>>)
  /\ UNCHANGED <<albums, files, disk, ffmpegStatic, boot, unlinks, finalised, up, ga, st>>

\* one `await safeUnlink(targetPath)`
UnlinkCall(targetPath, code) ==
  /\ Len(unlinks) < MaxCalls
  /\ code \in UnlinkCodes(tmp, targetPath)
  /\ LET outcome == safeUnlinkOutcome(tmp, targetPath, code)
     IN /\ tmp' = outcome.tmp
        /\ unlinks' = Append(unlinks, [path |-> targetPath, code |-> code,
                                       before |-> DOMAIN tmp, after |-> DOMAIN outcome.tmp,
                                       called |-> outcome.called, warned |-> outcome.warned,
                                       threw |-> outcome.threw])
  /\ UNCHANGED <<albums, files, disk, ffmpegStatic, boot, finalised, up, ga, st>>

UnlinkNext ==
  \/ \E n \in UnlinkFiles : TempAppears(n)
  \/ \E targetPath \in UnlinkPaths, code \in {"", "ENOENT", "EACCES", "EBUSY"} :
       UnlinkCall(targetPath, code)

UnlinkSpec == UnlinkInit /\ [][UnlinkNext]_vars

\* C26: no safeUnlink call rejects; a call with an empty path does not reach
\* the file system; a call for a file that does not exist, such as the
\* second of two calls for the same path, changes nothing and warns of
\* nothing; a call whose unlink is refused warns and changes nothing; a call
\* whose unlink succeeds removes that file and no other.
C26_SafeUnlinkNeverFails ==
  \A i \in 1..Len(unlinks) :
    LET c == unlinks[i]
    IN /\ ~c.threw
       /\ c.path = "" => (~c.called /\ ~c.warned /\ c.after = c.before)
       /\ (c.path # "" /\ c.path \notin c.before)
            => (c.code = "ENOENT" /\ ~c.warned /\ c.after = c.before)
       /\ (c.path # "" /\ c.code \notin {"", "ENOENT"}) => (c.warned /\ c.after = c.before)
       /\ (c.path # "" /\ c.code = "") => (~c.warned /\ c.after = c.before \ {c.path})
       /\ (i > 1 /\ unlinks[i - 1].path = c.path /\ unlinks[i - 1].code = "")
            => (c.after = c.before /\ ~c.warned)

C26_Witness ==
  /\ Len(unlinks) = 3
  /\ unlinks[1].path = TempName(1, 1, ".jpg")
  /\ unlinks[1].code = "EBUSY"
  /\ unlinks[1].warned
  /\ unlinks[2].path = TempName(1, 1, ".jpg")
  /\ unlinks[2].code = ""
  /\ unlinks[3].path = TempName(1, 1, ".jpg")
  /\ unlinks[3].code = "ENOENT"
  /\ ~unlinks[3].threw
  /\ tmp = (ConvertedName(1, 1) :> <<0>>)

(***************************************************************************)
(* Further properties of the upload handler (Spec).                        *)
(***************************************************************************)
\* C27: as soon as the catalog holds a file row of an upload's album, every
\* file of that upload has its record and its finished, complete object,
\* and the upload is past its last encryption.
C27_EncryptionsPrecedeInserts ==
  \A u \in Uploads :
    (up[u].albumId # 0 /\ FileRows(up[u].albumId) # {})
      => /\ up[u].pc \in {"insert", "finally", "done"}
         /\ Len(up[u].fileRecords) = Len(up[u].files)
         /\ \A k \in 1..Len(up[u].files) :
              LET r == up[u].fileRecords[k]
              IN /\ StartsWith(r.filename, ObjectUuid(u, k))
                 /\ r.filename \in DOMAIN finalised
                 /\ ObjectPath(r.filename) \in DOMAIN disk
                 /\ disk[ObjectPath(r.filename)].complete
                 /\ disk[ObjectPath(r.filename)].data = finalised[r.filename].ct

C27_Witness ==
  /\ Len(up[1].files) = 2
  /\ up[1].pc = "insert"
  /\ up[1].j = 2
  /\ Cardinality(FileRows(up[1].albumId)) = 1
  /\ up[1].fileRecords[2].type = "video/mp4"

\* C28: once an upload has ended, with success or with an error, every
\* object of the uploads directory that it wrote is the object of some file
\* row of the catalog.
C28_NoUnreferencedObjects ==
  \A u \in Uploads :
    up[u].pc = "done"
      => \A k \in 1..MaxFiles :
           \A loc \in StoredObjectsOf(u, k) :
             \E i \in 1..Len(files) : ObjectPath(files[i].filename) = loc

====
